---- MODULE Spec2Model ----
(***************************************************************************)
(* Session lifecycle and cache synchronisation of the MentorHub client.   *)
(*                                                                         *)
(* One SessionCard (src/unnamed/part_000) rendered for one viewer, the     *)
(* SkillsProgress panel (src/unnamed/part_001) of the same viewer, the     *)
(* react-query cache they share, and the API server behind them; and the   *)
(* dashboard's overview, StatsOverview (stats-card.tsx) with               *)
(* RecommendedMentors (recommended-mentors.tsx), over the arrays its       *)
(* queries hold.                                                           *)
(* The card's free-text comment, the meeting link and all styling are      *)
(* left out: no modelled decision reads them.                              *)
(***************************************************************************)
EXTENDS Integers, Sequences, FiniteSets, TLC

\* Bound on the number of mutation requests one behaviour dispatches.
MaxDispatch == 2

----------------------------------------------------------------------------
(* Entities *)

Statuses ==
  {"pending", "approved", "completed", "canceled", "rejected"}

TerminalStatuses ==
  {"completed", "canceled", "rejected"}

\* The users known to the server; a session's mentor is a mentor, its mentee a mentee.
Users ==
  << [id |-> 1, role |-> "mentor", firstName |-> "Maya", lastName |-> "Iyer"],
     [id |-> 2, role |-> "mentee", firstName |-> "Noor", lastName |-> "Khan"],
     [id |-> 3, role |-> "mentor", firstName |-> "Omar", lastName |-> "Diaz"],
     [id |-> 4, role |-> "mentee", firstName |-> "Pia", lastName |-> "Lund"] >>

Viewers ==
  { [id |-> Users[i].id, role |-> Users[i].role] : i \in DOMAIN Users }

\* The session the card renders (the scenario session of the specification).
SessionOf(status) ==
  [id |-> 7, mentorId |-> 1, menteeId |-> 2, status |-> status]

\* Another session of the same two users, for feedback the viewer gave earlier.
OtherSessionId ==
  SessionOf("completed").id + 1

\* Values the rating state can be set to, besides its initial 5.
RatingInputs ==
  {6}

ValidRatings ==
  1..5

----------------------------------------------------------------------------
(* Query keys *)

KSessions == "/api/sessions"
KUpcoming == "/api/sessions/upcoming"
KActivities == "/api/activities"
KFeedback == "/api/feedback"
KFeedbackGiven == "/api/feedback/given"
KSkills == "/api/skills"
KMentors == "/api/mentors"
KProfile == "/api/profile/{participantId}"

Keys ==
  {KSessions, KUpcoming, KActivities, KFeedback, KFeedbackGiven, KSkills,
   KMentors, KProfile}

\* A cache entry: no data and idle, no data and fetching, fresh data,
\* invalidated data with no fetch running, invalidated data being refetched,
\* no data and the fetch failed.
QueryStates ==
  {"idle", "pending", "success", "stale", "refetching", "error"}

\* The keys the dashboard's overview components read
\* (stats-card.tsx:14-29, recommended-mentors.tsx:14-17)
OverviewKeys ==
  {KUpcoming, KSessions, KFeedback, KMentors}

VARIABLES
  user,               \* useAuth().user: the viewer
  session,            \* the card's session prop: a snapshot of the server's row
  showFeedbackModal,  \* useState(false)
  rating,             \* useState(5)
  isAddingSkill,      \* useState(false) of SkillsProgress
  cache,              \* the query cache: key -> QueryStates
  feedbackGivenData,  \* the data cached under /api/feedback/given
  requests,           \* every mutation request dispatched, with its outcome
  toast,              \* title of the last toast shown, "" when none
  serverStatus,       \* the session's status on the server
  serverFeedbackGiven, \* the feedback rows the viewer has given, on the server
  queryData,          \* the arrays the overview queries hold: key -> array
  outdated            \* keys whose cached data predates a succeeded own mutation

vars ==
  << user, session, showFeedbackModal, rating, isAddingSkill, cache,
     feedbackGivenData, requests, toast, serverStatus, serverFeedbackGiven,
     queryData, outdated >>

----------------------------------------------------------------------------
(* SessionCard: values derived on every render *)

\* part_000:36-38
isOwnSession ==
  IF user.role = "mentor"
    THEN session.mentorId = user.id
    ELSE session.menteeId = user.id

\* part_000:40
isMentor ==
  user.role = "mentor"

\* part_000:41
participantId ==
  IF isMentor THEN session.menteeId ELSE session.mentorId

\* part_000:165 and :332: the viewer is the session's mentor or mentee
IsParticipant ==
  session.mentorId = user.id \/ session.menteeId = user.id

\* Mutant: the profile query is enabled for every viewer of the card
EnabledProfileForAnyViewer(k, st) ==
  CASE k = KProfile -> participantId # 0
    [] k = KFeedbackGiven -> st = "completed" /\ isOwnSession
    [] k = KSkills -> user.role = "mentee"
    [] k = KMentors -> user.role = "mentee"
    [] OTHER -> TRUE

\* Whether the query under key k has an enabled observer when the card shows
\* a session of status st (the `enabled` options of the useQuery calls).
Enabled(k, st) ==
  CASE k = KProfile -> participantId # 0 /\ isOwnSession
    [] k = KFeedbackGiven -> st = "completed" /\ isOwnSession
    [] k = KSkills -> user.role = "mentee"
    [] k = KMentors -> user.role = "mentee"
    [] OTHER -> TRUE

HasData(k) ==
  cache[k] \in {"success", "stale", "refetching"}

IsFetching(k) ==
  cache[k] \in {"pending", "refetching"}

IsInvalidated(k) ==
  cache[k] \in {"stale", "refetching"}

\* part_000:43-46: data of the profile query, a one-element set, {} when undefined
participant ==
  IF HasData(KProfile)
    THEN {Users[i] : i \in {j \in DOMAIN Users : Users[j].id = participantId}}
    ELSE {}

\* part_000:49-52: data of the feedback-given query, <<>> standing for undefined
userFeedback ==
  IF HasData(KFeedbackGiven) THEN feedbackGivenData ELSE << >>

\* Array.prototype.some over the feedback-given array, element by element
RECURSIVE SomeFeedback(_, _, _)
SomeFeedback(arr, sessionId, fromId) ==
  IF arr = << >>
    THEN FALSE
    ELSE \/ (Head(arr).sessionId = sessionId /\ Head(arr).fromId = fromId)
         \/ SomeFeedback(Tail(arr), sessionId, fromId)

\* Mutant: feedback the viewer gave on any session counts
hasLeftAnyFeedback ==
  /\ HasData(KFeedbackGiven)
  /\ \E n \in DOMAIN userFeedback : userFeedback[n].fromId = user.id

\* part_000:55-57 (undefined?.some(...) || false is false)
hasLeftFeedback ==
  HasData(KFeedbackGiven) /\ SomeFeedback(userFeedback, session.id, user.id)

\* Mutant: the full name is shown for every own session, whatever its status
shouldShowFullNameAnyStatus ==
  isOwnSession

\* part_000:263
shouldShowFullName ==
  isOwnSession /\ session.status = "completed"

\* canLeaveFeedback of the specification (4.3), over the card's own values
canLeaveFeedback ==
  isOwnSession /\ session.status = "completed" /\ ~hasLeftFeedback

\* part_000:265-267: the name shown for the other participant, as its words
participantName ==
  IF shouldShowFullName /\ participant # {}
    THEN LET p == CHOOSE x \in participant : TRUE
         IN  << p.firstName, p.lastName >>
    ELSE << IF isMentor THEN "Mentee" ELSE "Mentor" >>

\* Mutant: the participant's Cancel button is rendered whatever the status
CancelOfferedAnyStatus ==
  \/ session.status = "approved"
  \/ IsParticipant

\* part_000:312-337: one of the two Cancel buttons is rendered
CancelOffered ==
  \/ session.status = "approved"
  \/ /\ IsParticipant
     /\ session.status \notin TerminalStatuses

----------------------------------------------------------------------------
(* The query cache *)

\* queryClient.invalidateQueries for each key of ks: cached data is marked
\* invalidated and refetched when an enabled observer is mounted; a query
\* without data stays as it is.
InvalidateQueries(c, ks) ==
  [k \in Keys |->
     IF k \in ks /\ c[k] \in {"success", "stale", "refetching"}
       THEN IF Enabled(k, session.status) THEN "refetching" ELSE "stale"
       ELSE c[k]]

\* A render with session status st: every enabled query that has no data, or
\* whose data is invalidated, starts fetching.
Observe(c, st) ==
  [k \in Keys |->
     IF Enabled(k, st)
       THEN CASE c[k] = "idle" -> "pending"
              [] c[k] = "stale" -> "refetching"
              [] OTHER -> c[k]
       ELSE c[k]]

----------------------------------------------------------------------------
(* Requests *)

NoRequestFields ==
  [sessionId |-> 0, status |-> "", fromId |-> 0, toId |-> 0, rating |-> 0]

Request(method, url, fields) ==
  [method |-> method, url |-> url, sessionId |-> fields.sessionId,
   status |-> fields.status, fromId |-> fields.fromId, toId |-> fields.toId,
   rating |-> fields.rating, outcome |-> "pending"]

IsPendingRequest(i) ==
  i \in DOMAIN requests /\ requests[i].outcome = "pending"

\* useMutation's isPending: a request of that mutation is awaiting its response
MutationIsPending(method, url) ==
  \E i \in DOMAIN requests :
     /\ requests[i].method = method
     /\ requests[i].url = url
     /\ requests[i].outcome = "pending"

Settle(i, outcome) ==
  [requests EXCEPT ![i].outcome = outcome]

CanDispatch ==
  Len(requests) < MaxDispatch

SessionUrl == "/api/sessions/{id}"
FeedbackUrl == "/api/feedback"
SkillsUrl == "/api/skills"
SkillUrl == "/api/skills/{id}"

\* The resources a succeeded mutation changes on the server, by the keys
\* they are read under (spec 4.5)
ServerChanges(url) ==
  CASE url = SessionUrl -> {KSessions, KUpcoming, KActivities}
    [] url = FeedbackUrl -> {KFeedback, KFeedbackGiven, KActivities}
    [] url = SkillsUrl -> {KSkills}
    [] url = SkillUrl -> {KSkills}
    [] OTHER -> {}

----------------------------------------------------------------------------
(* Initial state: the card has just been mounted with a session of a loaded *)
(* session list; the dashboard's own queries have loaded.                   *)

InitialCache(profileCached) ==
  [k \in Keys |->
     CASE k \in {KSessions, KUpcoming, KActivities, KFeedback} -> "success"
       [] k \in {KSkills, KMentors} ->
            IF user.role = "mentee" THEN "success" ELSE "idle"
       [] k = KProfile -> IF profileCached THEN "success" ELSE "idle"
       [] OTHER -> "idle"]

\* Feedback the viewer gave earlier, on another session
EarlierFeedback ==
  [sessionId |-> OtherSessionId, fromId |-> user.id,
   toId |-> IF user.role = "mentor" THEN 2 ELSE 1, rating |-> 4]

Init ==
  /\ user \in Viewers
  /\ \E st \in Statuses :
       /\ session = SessionOf(st)
       /\ serverStatus = st
       \* An owner fetches the participant's profile; for any other viewer
       \* it may be cached already, by another view of the application.
       /\ \E profileCached \in (IF isOwnSession THEN {FALSE} ELSE BOOLEAN) :
            cache = Observe(InitialCache(profileCached), st)
  /\ showFeedbackModal = FALSE
  /\ rating = 5
  /\ isAddingSkill = FALSE
  /\ feedbackGivenData = << >>
  /\ requests = << >>
  /\ toast = ""
  /\ serverFeedbackGiven \in { << >>, << EarlierFeedback >> }
  /\ queryData = [k \in OverviewKeys |-> << >>]
  /\ outdated = {}

----------------------------------------------------------------------------
(* SessionCard: cancelling *)

\* Mutant: handleCancel without its participant check
HandleCancelUnchecked ==
  /\ CancelOffered
  /\ CanDispatch
  /\ requests' = Append(requests,
       Request("PUT", SessionUrl,
         [NoRequestFields EXCEPT !.sessionId = session.id,
                                 !.status = "canceled"]))
  /\ UNCHANGED << user, queryData, outdated, session, showFeedbackModal,
                  rating, isAddingSkill, cache, feedbackGivenData, toast,
                  serverStatus, serverFeedbackGiven >>

\* Mutant: handleCancel asks for the status rejected
HandleCancelRejects ==
  /\ CancelOffered
  /\ IF session.mentorId # user.id /\ session.menteeId # user.id
       THEN /\ toast' = "Permission Denied"
            /\ UNCHANGED requests
       ELSE /\ CanDispatch
            /\ requests' = Append(requests,
                 Request("PUT", SessionUrl,
                   [NoRequestFields EXCEPT !.sessionId = session.id,
                                           !.status = "rejected"]))
            /\ UNCHANGED toast
  /\ UNCHANGED << user, queryData, outdated, session, showFeedbackModal,
                  rating, isAddingSkill, cache, feedbackGivenData,
                  serverStatus, serverFeedbackGiven >>

\* part_000:163-175, reachable through a rendered Cancel button
HandleCancel ==
  /\ CancelOffered
  /\ IF session.mentorId # user.id /\ session.menteeId # user.id
       THEN /\ toast' = "Permission Denied"
            /\ UNCHANGED requests
       ELSE /\ CanDispatch
            /\ requests' = Append(requests,
                 Request("PUT", SessionUrl,
                   [NoRequestFields EXCEPT !.sessionId = session.id,
                                           !.status = "canceled"]))
            /\ UNCHANGED toast
  /\ UNCHANGED << user, queryData, outdated, session, showFeedbackModal,
                  rating, isAddingSkill, cache, feedbackGivenData,
                  serverStatus, serverFeedbackGiven >>

\* Mutant: a status change leaves the upcoming-sessions list alone
UpdateSessionInvalidatesWithoutUpcoming ==
  {KSessions, KActivities}

\* Mutant: a status change also invalidates the feedback list
UpdateSessionInvalidatesFeedbackToo ==
  {KSessions, KUpcoming, KActivities, KFeedback}

\* part_000:66-68
UpdateSessionInvalidates ==
  {KSessions, KUpcoming, KActivities}

\* part_000:71-88
UpdateSessionToast(status) ==
  CASE status = "completed" -> "Session marked as completed"
    [] status = "canceled" -> "Session canceled"
    [] OTHER -> "Session {status}"

\* part_000:59-89: the PUT is answered with success and onSuccess runs
UpdateSessionSuccess(i) ==
  /\ IsPendingRequest(i)
  /\ requests[i].url = SessionUrl
  /\ serverStatus' = requests[i].status
  /\ requests' = Settle(i, "success")
  /\ cache' = InvalidateQueries(cache, UpdateSessionInvalidates)
  /\ toast' = UpdateSessionToast(requests[i].status)
  /\ outdated' = outdated \cup
       { k \in ServerChanges(requests[i].url) : HasData(k) }
  /\ UNCHANGED << user, queryData, session, showFeedbackModal, rating,
                  isAddingSkill, feedbackGivenData, serverFeedbackGiven >>

\* Mutant: onError invalidates as onSuccess does
UpdateSessionErrorInvalidating(i) ==
  /\ IsPendingRequest(i)
  /\ requests[i].url = SessionUrl
  /\ requests' = Settle(i, "error")
  /\ cache' = InvalidateQueries(cache, UpdateSessionInvalidates)
  /\ toast' = "Failed to update session"
  /\ UNCHANGED << user, queryData, outdated, session, showFeedbackModal,
                  rating, isAddingSkill, feedbackGivenData, serverStatus,
                  serverFeedbackGiven >>

\* part_000:90-96: the PUT fails and onError runs
UpdateSessionError(i) ==
  /\ IsPendingRequest(i)
  /\ requests[i].url = SessionUrl
  /\ requests' = Settle(i, "error")
  /\ toast' = "Failed to update session"
  /\ UNCHANGED << user, queryData, outdated, session, showFeedbackModal,
                  rating, isAddingSkill, cache, feedbackGivenData,
                  serverStatus, serverFeedbackGiven >>

----------------------------------------------------------------------------
(* SessionCard: feedback *)

\* part_000:177-179
HandleLeaveFeedback ==
  /\ showFeedbackModal' = TRUE
  /\ UNCHANGED << user, queryData, outdated, session, rating, isAddingSkill,
                  cache, feedbackGivenData, requests, toast, serverStatus,
                  serverFeedbackGiven >>

\* part_000:345 and :402: the dialog is dismissed
CloseFeedbackModal ==
  /\ showFeedbackModal
  /\ showFeedbackModal' = FALSE
  /\ UNCHANGED << user, queryData, outdated, session, rating, isAddingSkill,
                  cache, feedbackGivenData, requests, toast, serverStatus,
                  serverFeedbackGiven >>

\* part_000:32: the rating state's setter
SetRating(r) ==
  /\ showFeedbackModal
  /\ rating' = r
  /\ UNCHANGED << user, queryData, outdated, session, showFeedbackModal,
                  isAddingSkill, cache, feedbackGivenData, requests, toast,
                  serverStatus, serverFeedbackGiven >>

\* Mutant: toId is taken from the viewer's own side of the session
FeedbackDataToOwnSide ==
  [NoRequestFields EXCEPT
     !.sessionId = session.id,
     !.fromId = user.id,
     !.toId = IF isMentor THEN session.mentorId ELSE session.menteeId,
     !.rating = rating]

\* part_000:182-188
FeedbackData ==
  [NoRequestFields EXCEPT
     !.sessionId = session.id,
     !.fromId = user.id,
     !.toId = IF isMentor THEN session.menteeId ELSE session.mentorId,
     !.rating = rating]

\* part_000:181-190, through the Submit Feedback button (:405), which is
\* disabled while the mutation is pending
SubmitFeedback ==
  /\ showFeedbackModal
  /\ ~MutationIsPending("POST", FeedbackUrl)
  /\ CanDispatch
  /\ requests' = Append(requests, Request("POST", FeedbackUrl, FeedbackData))
  /\ UNCHANGED << user, queryData, outdated, session, showFeedbackModal,
                  rating, isAddingSkill, cache, feedbackGivenData, toast,
                  serverStatus, serverFeedbackGiven >>

\* Mutant: a feedback submission also invalidates the sessions list
SubmitFeedbackInvalidatesSessionsToo ==
  {KFeedback, KFeedbackGiven, KActivities, KSessions}

\* part_000:112-114
SubmitFeedbackInvalidates ==
  {KFeedback, KFeedbackGiven, KActivities}

\* part_000:99-115: the POST is answered with success and onSuccess runs
SubmitFeedbackSuccess(i) ==
  /\ IsPendingRequest(i)
  /\ requests[i].url = FeedbackUrl
  /\ serverFeedbackGiven' = Append(serverFeedbackGiven,
       [sessionId |-> requests[i].sessionId, fromId |-> requests[i].fromId,
        toId |-> requests[i].toId, rating |-> requests[i].rating])
  /\ requests' = Settle(i, "success")
  /\ showFeedbackModal' = FALSE
  /\ toast' = "Feedback submitted"
  /\ cache' = InvalidateQueries(cache, SubmitFeedbackInvalidates)
  /\ outdated' = outdated \cup
       { k \in ServerChanges(requests[i].url) : HasData(k) }
  /\ UNCHANGED << user, queryData, session, rating, isAddingSkill,
                  feedbackGivenData, serverStatus >>

\* part_000:116-122: the POST fails and onError runs
SubmitFeedbackError(i) ==
  /\ IsPendingRequest(i)
  /\ requests[i].url = FeedbackUrl
  /\ requests' = Settle(i, "error")
  /\ toast' = "Failed to submit feedback"
  /\ UNCHANGED << user, queryData, outdated, session, showFeedbackModal,
                  rating, isAddingSkill, cache, feedbackGivenData,
                  serverStatus, serverFeedbackGiven >>

----------------------------------------------------------------------------
(* SkillsProgress: rendered for a mentee only (part_001:107-109) *)

\* part_001:165-172: the Add New Skill button, below the loading gate (:111)
OpenAddSkill ==
  /\ user.role = "mentee"
  /\ cache[KSkills] # "pending"
  /\ ~isAddingSkill
  /\ isAddingSkill' = TRUE
  /\ UNCHANGED << user, queryData, outdated, session, showFeedbackModal,
                  rating, cache, feedbackGivenData, requests, toast,
                  serverStatus, serverFeedbackGiven >>

\* part_001:175 and :220: the dialog is dismissed
CloseAddSkill ==
  /\ isAddingSkill
  /\ isAddingSkill' = FALSE
  /\ UNCHANGED << user, queryData, outdated, session, showFeedbackModal,
                  rating, cache, feedbackGivenData, requests, toast,
                  serverStatus, serverFeedbackGiven >>

\* part_001:99-101, through the Add Skill button (:223), which is disabled
\* while the mutation is pending
OnSubmit ==
  /\ isAddingSkill
  /\ ~MutationIsPending("POST", SkillsUrl)
  /\ CanDispatch
  /\ requests' = Append(requests, Request("POST", SkillsUrl, NoRequestFields))
  /\ UNCHANGED << user, queryData, outdated, session, showFeedbackModal,
                  rating, isAddingSkill, cache, feedbackGivenData, toast,
                  serverStatus, serverFeedbackGiven >>

\* part_001:103-105
HandleProgressChange ==
  /\ user.role = "mentee"
  /\ HasData(KSkills)
  /\ CanDispatch
  /\ requests' = Append(requests, Request("PUT", SkillUrl, NoRequestFields))
  /\ UNCHANGED << user, queryData, outdated, session, showFeedbackModal,
                  rating, isAddingSkill, cache, feedbackGivenData, toast,
                  serverStatus, serverFeedbackGiven >>

\* Mutant: adding a skill also invalidates the activity feed
AddSkillInvalidatesActivitiesToo ==
  {KSkills, KActivities}

\* part_001:61
AddSkillInvalidates ==
  {KSkills}

\* part_001:84
UpdateSkillInvalidates ==
  {KSkills}

\* part_001:55-68
AddSkillSuccess(i) ==
  /\ IsPendingRequest(i)
  /\ requests[i].url = SkillsUrl
  /\ requests' = Settle(i, "success")
  /\ cache' = InvalidateQueries(cache, AddSkillInvalidates)
  /\ isAddingSkill' = FALSE
  /\ toast' = "Skill added"
  /\ outdated' = outdated \cup
       { k \in ServerChanges(requests[i].url) : HasData(k) }
  /\ UNCHANGED << user, queryData, session, showFeedbackModal, rating,
                  feedbackGivenData, serverStatus, serverFeedbackGiven >>

\* part_001:69-75
AddSkillError(i) ==
  /\ IsPendingRequest(i)
  /\ requests[i].url = SkillsUrl
  /\ requests' = Settle(i, "error")
  /\ toast' = "Failed to add skill"
  /\ UNCHANGED << user, queryData, outdated, session, showFeedbackModal,
                  rating, isAddingSkill, cache, feedbackGivenData,
                  serverStatus, serverFeedbackGiven >>

\* part_001:78-89
UpdateSkillSuccess(i) ==
  /\ IsPendingRequest(i)
  /\ requests[i].url = SkillUrl
  /\ requests' = Settle(i, "success")
  /\ cache' = InvalidateQueries(cache, UpdateSkillInvalidates)
  /\ toast' = "Skill updated"
  /\ outdated' = outdated \cup
       { k \in ServerChanges(requests[i].url) : HasData(k) }
  /\ UNCHANGED << user, queryData, session, showFeedbackModal, rating,
                  isAddingSkill, feedbackGivenData, serverStatus,
                  serverFeedbackGiven >>

\* part_001:90-96
UpdateSkillError(i) ==
  /\ IsPendingRequest(i)
  /\ requests[i].url = SkillUrl
  /\ requests' = Settle(i, "error")
  /\ toast' = "Failed to update skill"
  /\ UNCHANGED << user, queryData, outdated, session, showFeedbackModal,
                  rating, isAddingSkill, cache, feedbackGivenData,
                  serverStatus, serverFeedbackGiven >>

----------------------------------------------------------------------------
(* Fetches and the server *)

\* A running fetch of key k resolves with the server's current value; the
\* consumers re-render with it (stale-while-revalidate, spec 4.5).
FetchResolve(k) ==
  /\ IsFetching(k)
  /\ session' = IF k = KSessions
                  THEN [session EXCEPT !.status = serverStatus]
                  ELSE session
  /\ feedbackGivenData' = IF k = KFeedbackGiven
                            THEN serverFeedbackGiven
                            ELSE feedbackGivenData
  /\ cache' = Observe([cache EXCEPT ![k] = "success"],
                      IF k = KSessions THEN serverStatus ELSE session.status)
  /\ outdated' = outdated \ {k}
  /\ UNCHANGED << user, queryData, showFeedbackModal, rating, isAddingSkill,
                  requests, toast, serverStatus, serverFeedbackGiven >>

\* The transitions of the session state machine (spec 4.2)
LegalNext(status) ==
  CASE status = "pending" -> {"approved", "rejected"}
    [] status = "approved" -> {"completed", "canceled"}
    [] OTHER -> {}

\* The other party, or the viewer elsewhere, moves the session on the server.
ServerTransition ==
  /\ \E st \in LegalNext(serverStatus) : serverStatus' = st
  /\ UNCHANGED << user, queryData, outdated, session, showFeedbackModal,
                  rating, isAddingSkill, cache, feedbackGivenData, requests,
                  toast, serverFeedbackGiven >>

----------------------------------------------------------------------------

\* The session card, its fetches and the server
Next ==
  \/ HandleCancel
  \/ \E i \in 1..MaxDispatch : UpdateSessionSuccess(i)
  \/ \E i \in 1..MaxDispatch : UpdateSessionError(i)
  \/ HandleLeaveFeedback
  \/ CloseFeedbackModal
  \/ \E r \in RatingInputs : SetRating(r)
  \/ SubmitFeedback
  \/ \E i \in 1..MaxDispatch : SubmitFeedbackSuccess(i)
  \/ \E i \in 1..MaxDispatch : SubmitFeedbackError(i)
  \/ \E k \in Keys : FetchResolve(k)
  \/ ServerTransition

Spec ==
  Init /\ [][Next]_vars

\* The session card in front of a server that answers every request with
\* success
ReliableServerNext ==
  \/ HandleCancel
  \/ \E i \in 1..MaxDispatch : UpdateSessionSuccess(i)
  \/ HandleLeaveFeedback
  \/ CloseFeedbackModal
  \/ \E r \in RatingInputs : SetRating(r)
  \/ SubmitFeedback
  \/ \E i \in 1..MaxDispatch : SubmitFeedbackSuccess(i)
  \/ \E k \in Keys : FetchResolve(k)
  \/ ServerTransition

SpecReliableServer ==
  Init /\ [][ReliableServerNext]_vars

\* A mentee's dashboard: the session card together with the skills panel,
\* every mutation of both with its two outcomes, and the fetches.
DashboardInit ==
  /\ Init
  /\ user.role = "mentee"

DashboardNext ==
  \/ HandleCancel
  \/ \E i \in 1..MaxDispatch : UpdateSessionSuccess(i)
  \/ \E i \in 1..MaxDispatch : UpdateSessionError(i)
  \/ HandleLeaveFeedback
  \/ SubmitFeedback
  \/ \E i \in 1..MaxDispatch : SubmitFeedbackSuccess(i)
  \/ \E i \in 1..MaxDispatch : SubmitFeedbackError(i)
  \/ OpenAddSkill
  \/ CloseAddSkill
  \/ OnSubmit
  \/ HandleProgressChange
  \/ \E i \in 1..MaxDispatch : AddSkillSuccess(i)
  \/ \E i \in 1..MaxDispatch : AddSkillError(i)
  \/ \E i \in 1..MaxDispatch : UpdateSkillSuccess(i)
  \/ \E i \in 1..MaxDispatch : UpdateSkillError(i)
  \/ \E k \in Keys : FetchResolve(k)

SpecDashboard ==
  DashboardInit /\ [][DashboardNext]_vars

\* The dashboard of the session's mentee, whose mutations all succeed and
\* whose fetches all resolve: a fetch that is running is eventually answered.
EventualInit ==
  /\ DashboardInit
  /\ user.id = session.menteeId
  /\ serverFeedbackGiven = << >>

EventualNext ==
  \/ HandleCancel
  \/ \E i \in 1..MaxDispatch : UpdateSessionSuccess(i)
  \/ HandleLeaveFeedback
  \/ SubmitFeedback
  \/ \E i \in 1..MaxDispatch : SubmitFeedbackSuccess(i)
  \/ OpenAddSkill
  \/ OnSubmit
  \/ HandleProgressChange
  \/ \E i \in 1..MaxDispatch : AddSkillSuccess(i)
  \/ \E i \in 1..MaxDispatch : UpdateSkillSuccess(i)
  \/ \E k \in Keys : FetchResolve(k)

SpecEventual ==
  /\ EventualInit
  /\ [][EventualNext]_vars
  /\ \A k \in Keys : WF_vars(FetchResolve(k))

----------------------------------------------------------------------------
(* The dashboard's overview: StatsOverview (stats-card.tsx) and            *)
(* RecommendedMentors (recommended-mentors.tsx)                            *)

\* Bounds on the arrays the server answers the overview queries with.
MaxUpcoming == 3
MaxSessions == 10
MaxFeedback == 3
MaxDirectory == 6

\* The ratings of the feedback rows the server returns
ServerRatings ==
  {4, 5}

\* A list of n sessions of the scenario's two users
SessionList(n, status) ==
  [i \in 1..n |-> [id |-> i, mentorId |-> 1, menteeId |-> 2, status |-> status]]

\* The arrays the server may answer a GET of key k with
Responses(k) ==
  CASE k = KUpcoming ->
         { SessionList(n, "approved") : n \in 0..MaxUpcoming }
    [] k = KSessions ->
         { SessionList(n, "completed") : n \in 0..MaxSessions }
    [] k = KFeedback ->
         { [i \in DOMAIN rs |-> [sessionId |-> i, rating |-> rs[i]]] :
             rs \in UNION { [1..n -> ServerRatings] : n \in 0..MaxFeedback } }
    [] k = KMentors ->
         { [i \in DOMAIN rs |-> [id |-> 10 + i, role |-> rs[i]]] :
             rs \in UNION { [1..n -> {"mentor", "mentee"}] :
                              n \in 0..MaxDirectory } }
    [] OTHER -> { << >> }

\* useQuery's isLoading: the first fetch is running and there is no data
isLoading(k) ==
  cache[k] = "pending"

\* stats-card.tsx:32 (undefined?.length || 0)
upcomingSessionsCount ==
  IF HasData(KUpcoming) THEN Len(queryData[KUpcoming]) ELSE 0

\* stats-card.tsx:33
totalHours ==
  (IF HasData(KSessions) THEN Len(queryData[KSessions]) ELSE 0) * 1

\* stats-card.tsx:34
activeMentorsCount ==
  IF user.role = "mentee"
    THEN (IF HasData(KMentors) THEN Len(queryData[KMentors]) ELSE 0)
    ELSE 0

\* stats-card.tsx:39: feedback.reduce((sum, item) => sum + item.rating, 0)
RECURSIVE totalRating(_)
totalRating(arr) ==
  IF arr = << >> THEN 0 ELSE Head(arr).rating + totalRating(Tail(arr))

\* Mutant: the average is cut to one decimal instead of rounded
TruncatedTenths(total, n) ==
  (10 * total) \div n

\* stats-card.tsx:40: Math.round((total / n) * 10), the average in tenths;
\* Math.round(x) is floor(x + 1/2)
RoundedTenths(total, n) ==
  (20 * total + n) \div (2 * n)

\* stats-card.tsx:37-41, in tenths
avgRating ==
  IF HasData(KFeedback) /\ Len(queryData[KFeedback]) > 0
    THEN RoundedTenths(totalRating(queryData[KFeedback]),
                       Len(queryData[KFeedback]))
    ELSE 0

\* stats-card.tsx:43
statsLoading ==
  \/ isLoading(KUpcoming)
  \/ isLoading(KSessions)
  \/ isLoading(KFeedback)
  \/ (user.role = "mentee" /\ isLoading(KMentors))

\* stats-card.tsx:43-106: what StatsOverview renders; the feedback score
\* `${avgRating}/5` is kept as its number of tenths
StatsOverview ==
  IF statsLoading
    THEN [view |-> "skeleton", upcoming |-> 0, hours |-> 0, slotTitle |-> "",
          slot |-> 0, score |-> "", tenths |-> 0]
    ELSE [view |-> "stats",
          upcoming |-> upcomingSessionsCount,
          hours |-> totalHours,
          slotTitle |-> IF user.role = "mentee"
                          THEN "Active Mentors" ELSE "Active Mentees",
          slot |-> IF user.role = "mentee"
                     THEN activeMentorsCount
                     ELSE (IF upcomingSessionsCount > 0
                             THEN upcomingSessionsCount ELSE 0),
          score |-> IF avgRating # 0 THEN "{avgRating}/5" ELSE "No ratings",
          tenths |-> avgRating]

\* Array.prototype.filter(mentor => mentor.role === "mentor")
RECURSIVE FilterMentors(_)
FilterMentors(arr) ==
  IF arr = << >>
    THEN << >>
    ELSE IF Head(arr).role = "mentor"
           THEN << Head(arr) >> \o FilterMentors(Tail(arr))
           ELSE FilterMentors(Tail(arr))

\* Array.prototype.slice(0, end) for end >= 0
Slice(arr, end) ==
  SubSeq(arr, 1, IF Len(arr) < end THEN Len(arr) ELSE end)

\* Mutant: the directory is cut to four entries without the role filter
recommendedMentorsUnfiltered ==
  IF HasData(KMentors) THEN Slice(queryData[KMentors], 4) ELSE << >>

\* recommended-mentors.tsx:20-22, << >> standing for undefined
recommendedMentors ==
  IF HasData(KMentors)
    THEN Slice(FilterMentors(queryData[KMentors]), 4)
    ELSE << >>

\* recommended-mentors.tsx:32-60 and :94: what RecommendedMentors renders
RecommendedMentors ==
  IF isLoading(KMentors)
    THEN [view |-> "skeleton", list |-> << >>]
    ELSE IF user.role # "mentee"
           THEN [view |-> "null", list |-> << >>]
           ELSE [view |-> "list", list |-> recommendedMentors]

\* The dashboard has just been mounted: every enabled overview query fetches.
OverviewInit ==
  /\ user \in { v \in Viewers : v.id \in {1, 2} }
  /\ session = SessionOf("pending")
  /\ serverStatus = "pending"
  /\ cache = [k \in Keys |->
                IF k \in OverviewKeys /\ Enabled(k, session.status)
                  THEN "pending" ELSE "idle"]
  /\ queryData = [k \in OverviewKeys |-> << >>]
  /\ outdated = {}
  /\ showFeedbackModal = FALSE
  /\ rating = 5
  /\ isAddingSkill = FALSE
  /\ feedbackGivenData = << >>
  /\ requests = << >>
  /\ toast = ""
  /\ serverFeedbackGiven = << >>

\* The GET of key k is answered with an array
OverviewFetchResolve(k) ==
  /\ k \in OverviewKeys
  /\ IsFetching(k)
  /\ \E r \in Responses(k) : queryData' = [queryData EXCEPT ![k] = r]
  /\ cache' = [cache EXCEPT ![k] = "success"]
  /\ UNCHANGED << user, outdated, session, showFeedbackModal, rating,
                  isAddingSkill, feedbackGivenData, requests, toast,
                  serverStatus, serverFeedbackGiven >>

\* The first GET of key k fails: the query is left without data
OverviewFetchFail(k) ==
  /\ k \in OverviewKeys
  /\ cache[k] = "pending"
  /\ cache' = [cache EXCEPT ![k] = "error"]
  /\ UNCHANGED << user, queryData, outdated, session, showFeedbackModal,
                  rating, isAddingSkill, feedbackGivenData, requests, toast,
                  serverStatus, serverFeedbackGiven >>

OverviewNext ==
  \/ \E k \in OverviewKeys : OverviewFetchResolve(k)
  \/ \E k \in OverviewKeys : OverviewFetchFail(k)

SpecOverview ==
  OverviewInit /\ [][OverviewNext]_vars

----------------------------------------------------------------------------
(* Properties *)

\* isOwner of the specification (4.1), written out on the viewer and session
IsOwner ==
  \/ (user.role = "mentor" /\ user.id = session.mentorId)
  \/ (user.role = "mentee" /\ user.id = session.menteeId)

RoleLabels ==
  { << "Mentor" >>, << "Mentee" >> }

RealNames ==
  { << Users[i].firstName, Users[i].lastName >> : i \in DOMAIN Users }

SessionRequests ==
  { i \in DOMAIN requests : requests[i].url = SessionUrl }

FeedbackRequests ==
  { i \in DOMAIN requests : requests[i].url = FeedbackUrl }

\* This step dispatches a request to url
Dispatches(url) ==
  /\ Len(requests') = Len(requests) + 1
  /\ requests'[Len(requests')].url = url

\* This step delivers the response `outcome` of request i
Settles(i, outcome) ==
  /\ i \in DOMAIN requests
  /\ requests[i].outcome = "pending"
  /\ requests'[i].outcome = outcome

\* C1: the other participant's real name is displayed only when the viewer
\* owns the session and the session is completed; in every other combination
\* the participant is shown by the role label.
FullNameOnlyToOwnerOfCompleted ==
  /\ participantName \in RealNames =>
       (IsOwner /\ session.status = "completed")
  /\ ~(IsOwner /\ session.status = "completed") =>
       participantName \in RoleLabels

\* C1 witness: the mentee of the completed session sees the mentor's name.
FullNameShownToOwner ==
  /\ IsOwner
  /\ session.status = "completed"
  /\ user.id = session.menteeId
  /\ participantName = << "Maya", "Iyer" >>

\* C2: a viewer who is neither mentor nor mentee of the session never has a
\* PUT for the session dispatched; the viewer's cancel attempt reports the
\* permission error, and the step that reports it changes neither the
\* requests, the cache, the session snapshot nor the server's status.
NonParticipantCancelDoesNothing ==
  /\ [](~(user.id = session.mentorId \/ user.id = session.menteeId) =>
          SessionRequests = {})
  /\ []((CancelOffered /\ user.id # session.mentorId
                       /\ user.id # session.menteeId) =>
          /\ ENABLED (HandleCancel /\ toast' = "Permission Denied")
          /\ ~ENABLED (HandleCancel /\ toast' # "Permission Denied"))
  /\ [][(toast' = "Permission Denied" /\ toast # "Permission Denied") =>
          /\ ~(user.id = session.mentorId \/ user.id = session.menteeId)
          /\ UNCHANGED << requests, cache, feedbackGivenData, session,
                          serverStatus, serverFeedbackGiven >>]_vars

\* C2 witness: a non-participant pressed Cancel and was refused.
PermissionDeniedShown ==
  /\ user.id # session.mentorId
  /\ user.id # session.menteeId
  /\ toast = "Permission Denied"
  /\ requests = << >>

\* This step dispatches a status change of the session to `status`
DispatchesStatus(status) ==
  /\ Dispatches(SessionUrl)
  /\ requests'[Len(requests')].status = status

\* C3 as claimed: no change to canceled is dispatched for a session that is
\* already completed, canceled or rejected on the server, stale card or not.
NoCancelOfTerminalSession ==
  [][DispatchesStatus("canceled") =>
       serverStatus \notin TerminalStatuses]_vars

\* C3 amended: a card whose session snapshot is completed, canceled or
\* rejected offers no Cancel button, and every change to canceled is
\* dispatched from a card whose snapshot is pending or approved.
CancelOnlyFromLiveSnapshot ==
  /\ [](session.status \in TerminalStatuses => ~CancelOffered)
  /\ [][DispatchesStatus("canceled") =>
          session.status \notin TerminalStatuses]_vars

\* C3 witness: the first cancel has succeeded, the card still shows the
\* session as it was, and a second cancel is on its way.
SecondCancelFromStaleCard ==
  \E i, j \in SessionRequests :
     /\ i < j
     /\ requests[i].outcome = "success"
     /\ requests[j].outcome = "pending"
     /\ serverStatus = "canceled"
     /\ session.status \notin TerminalStatuses

\* The state machine of the specification with pending -> canceled added
AmendedNext(status) ==
  CASE status = "pending" -> {"approved", "rejected", "canceled"}
    [] status = "approved" -> {"completed", "canceled"}
    [] OTHER -> {}

\* C4 as claimed: every dispatched status change is a transition of
\* pending -> {approved, rejected}, approved -> {completed, canceled} from
\* the status the card shows.
DispatchedTransitionsAreLegal ==
  [][Dispatches(SessionUrl) =>
       requests'[Len(requests')].status \in LegalNext(session.status)]_vars

\* C4 amended: every status change the session card dispatches is a
\* transition of pending -> {approved, rejected, canceled},
\* approved -> {completed, canceled} from the status the card shows; none
\* targets that status and none leaves completed, canceled or rejected.
DispatchedTransitionsAreLegalOrCancelPending ==
  [][Dispatches(SessionUrl) =>
       /\ requests'[Len(requests')].status \in AmendedNext(session.status)
       /\ requests'[Len(requests')].status # session.status]_vars

\* C4 witness: a participant's cancel of a pending session is on its way.
PendingSessionCancelDispatched ==
  \E i \in SessionRequests :
     /\ requests[i].status = "canceled"
     /\ requests[i].outcome = "pending"
     /\ session.status = "pending"
     /\ serverStatus = "pending"

\* C5: a key becomes invalidated only in a step that delivers a mutation's
\* success response; the step that dispatches a mutation and the step that
\* delivers its failure leave every cached snapshot as it was.
InvalidationOnlyAfterSuccess ==
  [][/\ (\E k \in Keys : ~IsInvalidated(k) /\ IsInvalidated(k)') =>
          (\E i \in DOMAIN requests : Settles(i, "success"))
     /\ (\/ Len(requests') > Len(requests)
         \/ \E i \in DOMAIN requests : Settles(i, "error")) =>
          UNCHANGED << cache, feedbackGivenData, session >>]_vars

\* C5 witness: a mutation has failed, another is awaiting its response, and
\* no key is invalidated.
FailedMutationLeftCacheAlone ==
  /\ \E i \in DOMAIN requests : requests[i].outcome = "error"
  /\ \E i \in DOMAIN requests : requests[i].outcome = "pending"
  /\ \A k \in Keys : ~IsInvalidated(k)

FeedbackGoesToOtherParticipant ==
  \A i \in FeedbackRequests :
     /\ requests[i].fromId = user.id
     /\ requests[i].toId \in {session.mentorId, session.menteeId}
     /\ requests[i].toId # requests[i].fromId
     /\ user.id = session.mentorId => requests[i].toId = session.menteeId
     /\ user.id = session.menteeId => requests[i].toId = session.mentorId

\* C9 witness: the session's mentor has dispatched feedback to its mentee.
MentorFeedbackDispatched ==
  \E i \in FeedbackRequests :
     /\ user.id = session.mentorId
     /\ requests[i].fromId = session.mentorId
     /\ requests[i].toId = session.menteeId

\* C10: the step that delivers the success of a session status change
\* invalidates the sessions list, the upcoming-sessions list and the
\* activity feed, and leaves every other cached key as it was.
StatusChangeInvalidatesItsThreeKeys ==
  [][(\E i \in SessionRequests : Settles(i, "success")) =>
       /\ \A k \in {KSessions, KUpcoming, KActivities} : IsInvalidated(k)'
       /\ \A k \in Keys \ {KSessions, KUpcoming, KActivities} :
             cache'[k] = cache[k]
       /\ UNCHANGED feedbackGivenData]_vars

\* C10 witness: a status change has succeeded; its three keys are being
\* refetched and no other key is invalidated.
ThreeKeysRefetchingAfterStatusChange ==
  /\ \E i \in SessionRequests : requests[i].outcome = "success"
  /\ \A k \in {KSessions, KUpcoming, KActivities} : cache[k] = "refetching"
  /\ \A k \in Keys \ {KSessions, KUpcoming, KActivities} : ~IsInvalidated(k)

\* C11: the step that delivers the success of a feedback submission
\* invalidates the feedback list, the feedback-given list and the activity
\* feed, each where it is cached, and leaves the sessions list, the
\* upcoming-sessions list, the skills, the mentors and every other key as
\* they were.
FeedbackInvalidatesItsThreeKeys ==
  [][(\E i \in FeedbackRequests : Settles(i, "success")) =>
       /\ \A k \in {KFeedback, KFeedbackGiven, KActivities} :
             HasData(k) => IsInvalidated(k)'
       /\ \A k \in {KFeedback, KFeedbackGiven, KActivities} :
             ~HasData(k) => cache'[k] = cache[k]
       /\ \A k \in Keys \ {KFeedback, KFeedbackGiven, KActivities} :
             cache'[k] = cache[k]
       /\ UNCHANGED session]_vars

\* C11 witness: the owner's feedback on the completed session has succeeded;
\* its three keys are being refetched and no other key is invalidated.
ThreeKeysRefetchingAfterFeedback ==
  /\ \E i \in FeedbackRequests : requests[i].outcome = "success"
  /\ \A k \in {KFeedback, KFeedbackGiven, KActivities} : cache[k] = "refetching"
  /\ \A k \in Keys \ {KFeedback, KFeedbackGiven, KActivities} :
        ~IsInvalidated(k)

SkillRequests ==
  { i \in DOMAIN requests : requests[i].url \in {SkillsUrl, SkillUrl} }

\* C12: the step that delivers the success of an add-skill, and the step
\* that delivers the success of an update-skill-progress, each invalidate the
\* skills list and leave every other cached key as it was.
SkillMutationsInvalidateSkillsOnly ==
  [][(\E i \in SkillRequests : Settles(i, "success")) =>
       /\ IsInvalidated(KSkills)'
       /\ \A k \in Keys \ {KSkills} : cache'[k] = cache[k]
       /\ UNCHANGED << session, feedbackGivenData >>]_vars

\* C12 witness: an add-skill and an update-skill-progress have both
\* succeeded; the skills list is being refetched and no other key is
\* invalidated.
SkillsRefetchingAfterBothSkillMutations ==
  /\ \E i \in DOMAIN requests :
        requests[i].url = SkillsUrl /\ requests[i].outcome = "success"
  /\ \E i \in DOMAIN requests :
        requests[i].url = SkillUrl /\ requests[i].outcome = "success"
  /\ cache[KSkills] = "refetching"
  /\ \A k \in Keys \ {KSkills} : ~IsInvalidated(k)

\* The collections the stats of this viewer are computed from
RequiredKeys ==
  {KUpcoming, KSessions, KFeedback} \cup
    (IF user.role = "mentee" THEN {KMentors} ELSE {})

\* C13 as claimed: while a required collection is loading the stats overview
\* shows the placeholder only, and stat values are displayed only when every
\* required collection has loaded.
StatsShownOnlyWhenAllLoaded ==
  /\ (\E k \in RequiredKeys : cache[k] = "pending") =>
       StatsOverview.view = "skeleton"
  /\ StatsOverview.view = "stats" => \A k \in RequiredKeys : HasData(k)

\* The tenths nearest to total / n, the upper one when two are equally near
NearestTenths(total, n) ==
  CHOOSE t \in 0..50 :
    /\ 2 * (t * n - 10 * total) <= n
    /\ 2 * (10 * total - t * n) < n

\* The stats are displayed and every collection they are computed from has
\* loaded
StatsOfLoadedCollections ==
  /\ StatsOverview.view = "stats"
  /\ \A k \in RequiredKeys : HasData(k)

\* C14: when every collection has loaded, the displayed stats are the size
\* of the upcoming-sessions collection, the number of all sessions, for a
\* mentee the size of the mentor directory and for a mentor the
\* upcoming-session count, and the mean of the feedback ratings rounded to
\* one decimal; the score reads "No ratings", and never 0, exactly when the
\* feedback collection is empty.
StatsEqualReference ==
  StatsOfLoadedCollections =>
    LET s == StatsOverview
        ratings == { queryData[KFeedback][i].rating :
                       i \in DOMAIN queryData[KFeedback] }
        sum == totalRating(queryData[KFeedback])
        n == Len(queryData[KFeedback])
    IN  /\ s.upcoming = Cardinality(DOMAIN queryData[KUpcoming])
        /\ s.hours = Cardinality(DOMAIN queryData[KSessions])
        /\ user.role = "mentee" =>
             s.slot = Cardinality(DOMAIN queryData[KMentors])
        /\ user.role = "mentor" =>
             s.slot = Cardinality(DOMAIN queryData[KUpcoming])
        /\ (s.score = "No ratings") <=> (queryData[KFeedback] = << >>)
        /\ n > 0 =>
             /\ s.score = "{avgRating}/5"
             /\ s.tenths = NearestTenths(sum, n)
             /\ s.tenths # 0
             /\ ratings = {4} => s.tenths = 40
             /\ ratings = {5} => s.tenths = 50

\* C14 witness: a mentee with 3 upcoming sessions, 10 sessions, the ratings
\* 4 and 5 and a directory of 6 mentors is shown 3, 10, 4.5 and 6.
ScenarioStatsShown ==
  /\ user.role = "mentee"
  /\ StatsOfLoadedCollections
  /\ Len(queryData[KUpcoming]) = 3
  /\ Len(queryData[KSessions]) = 10
  /\ Len(queryData[KMentors]) = 6
  /\ \A i \in DOMAIN queryData[KMentors] : queryData[KMentors][i].role = "mentor"
  /\ queryData[KFeedback] =
       << [sessionId |-> 1, rating |-> 4], [sessionId |-> 2, rating |-> 5] >>
  /\ StatsOverview.upcoming = 3
  /\ StatsOverview.hours = 10
  /\ StatsOverview.tenths = 45
  /\ StatsOverview.slot = 6

\* C15: on the card of a viewer who does not own the session, the profile
\* of the other participant is never being fetched, and no step starts such
\* a fetch.
ProfileFetchedOnlyForOwner ==
  /\ [](~IsOwner => ~IsFetching(KProfile))
  /\ [][~IsOwner => ~IsFetching(KProfile)']_vars

\* C15 witness: a viewer who does not own the session has pressed Cancel on
\* the card of a session that is no longer pending; no profile fetch has been
\* issued and the card holds no profile.
NonOwnerCardWithoutProfileFetch ==
  /\ ~IsOwner
  /\ toast = "Permission Denied"
  /\ session.status # "pending"
  /\ serverStatus = session.status
  /\ cache[KProfile] = "idle"
  /\ participant = {}

\* The directory positions that hold a user of role mentor
MentorPositions(dir) ==
  { i \in DOMAIN dir : dir[i].role = "mentor" }

\* The j-th lowest of a set of positions
NthPosition(P, j) ==
  CHOOSE i \in P : Cardinality({ x \in P : x <= i }) = j

\* C17: for every loaded mentor directory the recommended list has at most
\* 4 entries, each of role mentor, and they are the first min(4, n) of the
\* directory's n mentors in directory order; for a viewer who is not a
\* mentee the directory is never fetched and no list is rendered.
RecommendedAreFirstFourMentors ==
  /\ HasData(KMentors) =>
       LET dir == queryData[KMentors]
           P == MentorPositions(dir)
           m == IF Cardinality(P) < 4 THEN Cardinality(P) ELSE 4
       IN  /\ Len(recommendedMentors) <= 4
           /\ Len(recommendedMentors) = m
           /\ \A j \in 1..m :
                 /\ recommendedMentors[j].role = "mentor"
                 /\ recommendedMentors[j] = dir[NthPosition(P, j)]
  /\ user.role # "mentee" =>
       /\ cache[KMentors] = "idle"
       /\ RecommendedMentors.view # "list"
  /\ RecommendedMentors.view = "list" =>
       /\ user.role = "mentee"
       /\ RecommendedMentors.list = recommendedMentors

\* C17 witness: a mentee's directory of six holds a mentee in second place
\* and five mentors; the list shows the mentors of places 1, 3, 4 and 5.
FifthMentorLeftOut ==
  /\ user.role = "mentee"
  /\ HasData(KMentors)
  /\ Len(queryData[KMentors]) = 6
  /\ MentorPositions(queryData[KMentors]) = {1, 3, 4, 5, 6}
  /\ RecommendedMentors.view = "list"
  /\ RecommendedMentors.list =
       << queryData[KMentors][1], queryData[KMentors][3],
          queryData[KMentors][4], queryData[KMentors][5] >>

\* The keys the dashboard reads that a mutation changes on the server
SyncedKeys ==
  {KSessions, KUpcoming, KFeedback, KFeedbackGiven, KSkills}

\* Every cached snapshot holds what the server holds
CacheConsistent ==
  /\ outdated \cap SyncedKeys = {}
  /\ \A k \in SyncedKeys : ~IsInvalidated(k)
  /\ session.status = serverStatus
  /\ HasData(KFeedbackGiven) => feedbackGivenData = serverFeedbackGiven

\* C16: when mutations succeed and every fetch that runs is eventually
\* answered, then from some point on no key the dashboard reads is outdated
\* or invalidated, and the cached session and feedback-given list hold the
\* server's current value.
EventuallyConsistent ==
  <>[]CacheConsistent

\* C16 witness: on the completed session a feedback submission and a skill
\* mutation have both succeeded, every key they changed has been refetched,
\* and the cached feedback-given list holds the row just posted.
ConsistentAfterTwoMutations ==
  /\ session.status = "completed"
  /\ \E i \in FeedbackRequests : requests[i].outcome = "success"
  /\ \E i \in SkillRequests : requests[i].outcome = "success"
  /\ CacheConsistent
  /\ \A k \in SyncedKeys : cache[k] = "success"
  /\ SomeFeedback(feedbackGivenData, session.id, user.id)

====
